---- MODULE Spec2Model ----
(***************************************************************************)
(* Progress-estimation pipeline of the construction-progress demo.         *)
(*                                                                         *)
(*   agents.py               analyze_image, consolidate_analysis           *)
(*   project_mamangement.py  analyze_images                                *)
(*                                                                         *)
(* Text is a sequence of one-character strings.  The letters of the        *)
(* literal text are written "a"; digits, ".", "%" and " " are kept, since  *)
(* they are what the regular expression looks at.  Floats are exact        *)
(* rationals [n, d] in lowest terms (rounding of binary floats is not      *)
(* modelled).                                                              *)
(***************************************************************************)
EXTENDS Integers, Sequences, FiniteSets, TLC

VARIABLES analyzer, image_metadata_list, pc, idx, response_text,
          simulated_progress, cause, received, analysis_results, hist,
          image_analyses, timeline, total_progress, num_analyses, pos,
          reports

vars == <<analyzer, image_metadata_list, pc, idx, response_text,
          simulated_progress, cause, received, analysis_results, hist,
          image_analyses, timeline, total_progress, num_analyses, pos,
          reports>>

analyzerVars == <<idx, response_text, simulated_progress, cause, received,
                  analysis_results, hist>>

consolidateVars == <<image_analyses, timeline, total_progress, num_analyses,
                     pos, reports>>

(***************************************************************************)
(* Bounds                                                                  *)
(***************************************************************************)
MaxImages == 2

MaxChunks == 2

MaxLen == 4

MaxAnalyses == 2

MaxCalls == 2

SeqsUpTo(S, n) == UNION {[1..k -> S] : k \in 0..n}

(***************************************************************************)
(* Exact rationals standing for Python floats                              *)
(***************************************************************************)
RECURSIVE GCD(_, _)
GCD(a, b) == IF b = 0 THEN a ELSE GCD(b, a % b)

Rat(n, d) == LET g == GCD(n, d) IN [n |-> n \div g, d |-> d \div g]

Zero == [n |-> 0, d |-> 1]

RatAdd(x, y) == Rat(x.n * y.d + y.n * x.d, x.d * y.d)

RatDivInt(x, k) == Rat(x.n, x.d * k)

RatLeq(x, y) == x.n * y.d <= y.n * x.d

FromInt(k) == [n |-> k, d |-> 1]

RECURSIVE Pow10(_)
Pow10(k) == IF k = 0 THEN 1 ELSE 10 * Pow10(k - 1)

(***************************************************************************)
(* Characters                                                              *)
(***************************************************************************)
Digits == {"0", "1", "2", "3", "4", "5", "6", "7", "8", "9"}

IsDigit(c) == c \in Digits

DigitVal(c) ==
    CASE c = "0" -> 0 [] c = "1" -> 1 [] c = "2" -> 2 [] c = "3" -> 3
      [] c = "4" -> 4 [] c = "5" -> 5 [] c = "6" -> 6 [] c = "7" -> 7
      [] c = "8" -> 8 [] c = "9" -> 9

DigitChar(k) ==
    CASE k = 0 -> "0" [] k = 1 -> "1" [] k = 2 -> "2" [] k = 3 -> "3"
      [] k = 4 -> "4" [] k = 5 -> "5" [] k = 6 -> "6" [] k = 7 -> "7"
      [] k = 8 -> "8" [] k = 9 -> "9"

(***************************************************************************)
(* re.search(r"(\d+(\.\d+)?)\s*%?", text) and float(group(1))              *)
(***************************************************************************)
\* greedy \d+ starting at i: index of the last digit of the run (i - 1 if none)
RECURSIVE DigitRunEnd(_, _)
DigitRunEnd(s, i) ==
    IF i <= Len(s) /\ IsDigit(s[i]) THEN DigitRunEnd(s, i + 1) ELSE i - 1

NoMatch == [start |-> 0, end |-> 0]

\* variant: the pattern written with a mandatory percent sign
MatchAtRequiresPercent(s, i) ==
    LET intEnd == DigitRunEnd(s, i)
        hasFrac == /\ intEnd + 2 <= Len(s)
                   /\ s[intEnd + 1] = "."
                   /\ IsDigit(s[intEnd + 2])
        e == IF hasFrac THEN DigitRunEnd(s, intEnd + 2) ELSE intEnd
        RECURSIVE SkipSpace(_)
        SkipSpace(j) == IF j <= Len(s) /\ s[j] = " " THEN SkipSpace(j + 1) ELSE j
        p == SkipSpace(e + 1)
    IN  IF intEnd >= i /\ p <= Len(s) /\ s[p] = "%"
        THEN [start |-> i, end |-> e]
        ELSE NoMatch

\* span of group(1) for a match attempted at position i.  \d+ is greedy and
\* never gives digits back, because everything after it is optional; the
\* tail \s*%? matches the empty string and lies outside group(1).
MatchAt(s, i) ==
    LET intEnd == DigitRunEnd(s, i)
        hasFrac == /\ intEnd + 2 <= Len(s)
                   /\ s[intEnd + 1] = "."
                   /\ IsDigit(s[intEnd + 2])
    IN  IF intEnd < i
        THEN NoMatch
        ELSE [start |-> i,
              end |-> IF hasFrac THEN DigitRunEnd(s, intEnd + 2) ELSE intEnd]

\* the scan tries every start position from the left and stops at the first
\* one where the pattern matches
RECURSIVE SearchFrom(_, _)
SearchFrom(s, i) ==
    IF i > Len(s)
    THEN NoMatch
    ELSE LET m == MatchAt(s, i)
         IN  IF m # NoMatch THEN m ELSE SearchFrom(s, i + 1)

re_search(s) == SearchFrom(s, 1)

\* float("ddd") or float("ddd.ddd"): digits accumulated left to right
RECURSIVE ParseDigits(_, _)
ParseDigits(ds, acc) ==
    IF ds = <<>> THEN acc
    ELSE ParseDigits(Tail(ds), 10 * acc + DigitVal(Head(ds)))

float(g) ==
    LET dot == IF \E k \in 1..Len(g) : g[k] = "."
               THEN CHOOSE k \in 1..Len(g) : g[k] = "."
               ELSE Len(g) + 1
        ip == SubSeq(g, 1, dot - 1)
        fp == SubSeq(g, dot + 1, Len(g))
    IN  Rat(ParseDigits(ip \o fp, 0), Pow10(Len(fp)))

ProgressEstimate(text) ==
    LET progress_match == re_search(text)
    IN  IF progress_match # NoMatch
        THEN float(SubSeq(text, progress_match.start, progress_match.end))
        ELSE Zero

(***************************************************************************)
(* f"{simulated_progress:.1f}" ; simulated_progress is kept in hundredths  *)
(***************************************************************************)
RECURSIVE IntDigits(_)
IntDigits(k) ==
    IF k < 10 THEN <<DigitChar(k)>>
    ELSE IntDigits(k \div 10) \o <<DigitChar(k % 10)>>

\* tenths nearest to h hundredths (ties to even)
RoundTenths(h) ==
    LET q == h \div 10
        r == h % 10
    IN  IF r > 5 \/ (r = 5 /\ q % 2 = 1) THEN q + 1 ELSE q

Format1f(h) ==
    LET t == RoundTenths(h)
    IN  IntDigits(t \div 10) \o <<".", DigitChar(t % 10)>>

\* "Simulated analysis for image {image_uri}. The site appears to be at
\*  approximately {simulated_progress:.1f}% progress with visible ..."
SimulatedText(uri, h) ==
    <<"a", " ">> \o uri \o <<".", " ", "a", " ">>
        \o Format1f(h) \o <<"%", " ", "a">>

(***************************************************************************)
(* Inputs                                                                  *)
(***************************************************************************)
\* ".../Project_Aug_1.png" and a reference without a digit
UriWithDigit == <<"a", "_", "1", ".", "a">>

UriPlain == <<"a", ".", "a">>

ImageUris == {UriWithDigit, UriPlain}

\* pieces of text the model may stream
ChunkTexts == { <<"a", " ", "2", "5", "0">>, <<".", "5", "%">> }

\* values random.uniform(50, 100) may return, in hundredths
SimulatedChoices == {5000, 7346, 9996}

Alphabet == {"a", " ", "%", ".", "0", "5", "7"}

\* "approximately 73.5% progress" and "no numeric info here"
ExampleWithPercent == <<"a", " ", "7", "3", ".", "5", "%", " ", "a">>

ExampleNoDigit == <<"a", " ", "a", " ", "a", " ", "a">>

Narratives == SeqsUpTo(Alphabet, MaxLen) \cup {ExampleWithPercent, ExampleNoDigit}

(***************************************************************************)
(* Initial states                                                          *)
(***************************************************************************)
EmptyReport == <<>>

\* entry of analyze_image (agents.py) or analyze_images (project_mamangement.py)
Init ==
    /\ analyzer \in {"agents", "pm"}
    /\ image_metadata_list \in SeqsUpTo(ImageUris, MaxImages)
    /\ pc = IF analyzer = "pm" THEN "client" ELSE "loop"
    /\ idx = 0
    /\ response_text = <<>>
    /\ simulated_progress = 0
    /\ cause = "none"
    /\ received = <<>>
    /\ analysis_results = <<>>
    /\ hist = <<>>
    /\ image_analyses = <<>>
    /\ timeline = <<>>
    /\ total_progress = Zero
    /\ num_analyses = 0
    /\ pos = 0
    /\ reports = EmptyReport

image_uri == image_metadata_list[idx]

\* an exception raised at the current statement: inside the try block it
\* enters the except clause, outside it leaves the function
Raise(step, insideTry) ==
    IF insideTry
    THEN /\ pc' = "except"
         /\ cause' = step
    ELSE /\ pc' = "raised"
         /\ cause' = step

\* the try of analyze_image opens before the client is built (agents.py:60);
\* the try of analyze_images only wraps the streaming loop
\* (project_mamangement.py:55)
SetupInsideTry == analyzer = "agents"

(***************************************************************************)
(* The analyzers                                                           *)
(***************************************************************************)
\* genai.Client(...) returns
ConstructClient ==
    /\ pc = "client"
    /\ pc' = IF analyzer = "pm" THEN "loop" ELSE "part"
    /\ UNCHANGED <<analyzer, image_metadata_list, analyzerVars, consolidateVars>>

\* genai.Client(...) raises
ConstructClientFails ==
    /\ pc = "client"
    /\ Raise("client", SetupInsideTry)
    /\ UNCHANGED <<analyzer, image_metadata_list, idx, response_text,
                   simulated_progress, received, analysis_results, hist,
                   consolidateVars>>

\* for image_metadata in image_metadata_list: image_uri = image_metadata['image_uri']
NextImage ==
    /\ pc = "loop"
    /\ idx < Len(image_metadata_list)
    /\ idx' = idx + 1
    /\ cause' = "none"
    /\ received' = <<>>
    /\ pc' = IF analyzer = "agents" THEN "client" ELSE "part"
    /\ UNCHANGED <<analyzer, image_metadata_list, response_text,
                   simulated_progress, analysis_results, hist, consolidateVars>>

\* the list is exhausted: return analysis_results
LoopExit ==
    /\ pc = "loop"
    /\ idx = Len(image_metadata_list)
    /\ pc' = "returned"
    /\ UNCHANGED <<analyzer, image_metadata_list, analyzerVars, consolidateVars>>

\* types.Part.from_uri(...) returns
PartFromUri ==
    /\ pc = "part"
    /\ pc' = "prompt"
    /\ UNCHANGED <<analyzer, image_metadata_list, analyzerVars, consolidateVars>>

\* types.Part.from_uri(...) raises
PartFromUriFails ==
    /\ pc = "part"
    /\ Raise("part", SetupInsideTry)
    /\ UNCHANGED <<analyzer, image_metadata_list, idx, response_text,
                   simulated_progress, received, analysis_results, hist,
                   consolidateVars>>

\* prompt, contents and config are built and response_text = "" is executed.
\* In agents.py the prompt reads the name project_details, which no scope
\* defines, so this statement never completes there.
BuildPrompt ==
    /\ pc = "prompt"
    /\ analyzer = "pm"
    /\ response_text' = <<>>
    /\ pc' = "stream"
    /\ UNCHANGED <<analyzer, image_metadata_list, idx, simulated_progress,
                   cause, received, analysis_results, hist, consolidateVars>>

\* agents.py: NameError on project_details, always;
\* project_mamangement.py: a types.* constructor raises
BuildPromptFails ==
    /\ pc = "prompt"
    /\ Raise("prompt", SetupInsideTry)
    /\ UNCHANGED <<analyzer, image_metadata_list, idx, response_text,
                   simulated_progress, received, analysis_results, hist,
                   consolidateVars>>

\* one chunk arrives: response_text += chunk.text
StreamChunk ==
    /\ pc = "stream"
    /\ Len(received) < MaxChunks
    /\ \E chunk \in ChunkTexts :
          /\ response_text' = response_text \o chunk
          /\ received' = Append(received, chunk)
    /\ UNCHANGED <<analyzer, image_metadata_list, pc, idx, simulated_progress,
                   cause, analysis_results, hist, consolidateVars>>

\* the stream is exhausted
StreamEnd ==
    /\ pc = "stream"
    /\ pc' = "extract"
    /\ UNCHANGED <<analyzer, image_metadata_list, analyzerVars, consolidateVars>>

\* generate_content_stream raises, before or between chunks
StreamFails ==
    /\ pc = "stream"
    /\ Raise("stream", TRUE)
    /\ UNCHANGED <<analyzer, image_metadata_list, idx, response_text,
                   simulated_progress, received, analysis_results, hist,
                   consolidateVars>>

\* except Exception: simulated_progress = random.uniform(50, 100) and the
\* simulated narrative replaces response_text
SimulateAnalysis ==
    /\ pc = "except"
    /\ \E h \in SimulatedChoices :
          /\ simulated_progress' = h
          /\ response_text' = SimulatedText(image_uri, h)
    /\ pc' = "extract"
    /\ UNCHANGED <<analyzer, image_metadata_list, idx, cause, received,
                   analysis_results, hist, consolidateVars>>

Result(uri, text, progress_estimate) ==
    IF analyzer = "agents"
    THEN [analysis |-> text, progress |-> progress_estimate]
    ELSE [image_uri |-> uri, description |-> text, progress |-> progress_estimate]

Narrative(r) == IF analyzer = "agents" THEN r.analysis ELSE r.description

AppendResultFirst(results, r) == <<r>> \o results

AppendResult(results, r) == Append(results, r)

\* regex extraction and analysis_results.append(...).  hist records, per
\* appended result, how it came about (it is not program state): the step
\* that raised, the percentage written by the fallback, and the chunks the
\* narrative was built from when no step raised.
ExtractAndAppend ==
    /\ pc = "extract"
    /\ analysis_results' =
          AppendResult(analysis_results,
                       Result(image_uri, response_text, ProgressEstimate(response_text)))
    /\ hist' = Append(hist, [image_uri |-> image_uri,
                             simulated |-> cause # "none",
                             cause |-> cause,
                             received |-> IF cause = "none" THEN received ELSE <<>>,
                             written |-> IF cause # "none"
                                         THEN Rat(RoundTenths(simulated_progress), 10)
                                         ELSE Zero])
    /\ pc' = "loop"
    /\ UNCHANGED <<analyzer, image_metadata_list, idx, response_text,
                   simulated_progress, cause, received, consolidateVars>>

(***************************************************************************)
(* consolidate_analysis (agents.py)                                        *)
(***************************************************************************)
\* the caller hands the analyzer's list to the consolidator; only results of
\* analyze_image carry the 'analysis' key that consolidate_analysis reads
PassToConsolidator ==
    /\ pc = "returned"
    /\ analyzer = "agents"
    /\ image_analyses' = analysis_results
    /\ pc' = "consolidate"
    /\ UNCHANGED <<analyzer, image_metadata_list, analyzerVars, timeline,
                   total_progress, num_analyses, pos, reports>>

\* variant: the accumulators survive from the previous call
ConsolidateBeginKeepsState ==
    /\ pc = "consolidate"
    /\ Len(reports) < MaxCalls
    /\ num_analyses' = Len(image_analyses)
    /\ pos' = 0
    /\ pc' = "consolidate_loop"
    /\ UNCHANGED <<analyzer, image_metadata_list, analyzerVars, image_analyses,
                   timeline, total_progress, reports>>

\* timeline = [] ; total_progress = 0.0 ; num_analyses = len(image_analyses)
ConsolidateBegin ==
    /\ pc = "consolidate"
    /\ Len(reports) < MaxCalls
    /\ timeline' = <<>>
    /\ total_progress' = Zero
    /\ num_analyses' = Len(image_analyses)
    /\ pos' = 0
    /\ pc' = "consolidate_loop"
    /\ UNCHANGED <<analyzer, image_metadata_list, analyzerVars, image_analyses,
                   reports>>

TimelineEntry(a) == [analysis |-> a.analysis, progress |-> a.progress]

\* variant: entries are inserted at the front of the timeline
ConsolidateLoopPrepends ==
    /\ pc = "consolidate_loop"
    /\ pos < Len(image_analyses)
    /\ pos' = pos + 1
    /\ timeline' = <<TimelineEntry(image_analyses[pos + 1])>> \o timeline
    /\ total_progress' = RatAdd(total_progress, image_analyses[pos + 1].progress)
    /\ UNCHANGED <<analyzer, image_metadata_list, pc, analyzerVars,
                   image_analyses, num_analyses, reports>>

\* for analysis in image_analyses: timeline.append(...) ; total_progress += ...
ConsolidateLoop ==
    /\ pc = "consolidate_loop"
    /\ pos < Len(image_analyses)
    /\ pos' = pos + 1
    /\ timeline' = Append(timeline, TimelineEntry(image_analyses[pos + 1]))
    /\ total_progress' = RatAdd(total_progress, image_analyses[pos + 1].progress)
    /\ UNCHANGED <<analyzer, image_metadata_list, pc, analyzerVars,
                   image_analyses, num_analyses, reports>>

\* variant: the guard of the division is off by one
OverallProgressSkipsSingle(total, n) == IF n > 1 THEN RatDivInt(total, n) ELSE Zero

\* total_progress / num_analyses if num_analyses > 0 else 0.0
OverallProgress(total, n) == IF n > 0 THEN RatDivInt(total, n) ELSE Zero

estimated_completion == "2024-06-01"

\* the loop is over: compute overall_progress and return the report
ConsolidateReturn ==
    /\ pc = "consolidate_loop"
    /\ pos = Len(image_analyses)
    /\ reports' = Append(reports,
                         [timeline |-> timeline,
                          overall_progress |-> OverallProgress(total_progress, num_analyses),
                          estimated_completion |-> estimated_completion])
    /\ pc' = "consolidate"
    /\ UNCHANGED <<analyzer, image_metadata_list, analyzerVars, image_analyses,
                   timeline, total_progress, num_analyses, pos>>

(***************************************************************************)
(* Specifications                                                          *)
(***************************************************************************)
\* both analyzers, then the consolidator on the output of analyze_image
Next ==
    \/ ConstructClient
    \/ ConstructClientFails
    \/ NextImage
    \/ LoopExit
    \/ PartFromUri
    \/ PartFromUriFails
    \/ BuildPrompt
    \/ BuildPromptFails
    \/ StreamChunk
    \/ StreamEnd
    \/ StreamFails
    \/ SimulateAnalysis
    \/ ExtractAndAppend
    \/ PassToConsolidator
    \/ ConsolidateBegin
    \/ ConsolidateLoop
    \/ ConsolidateReturn

Spec == Init /\ [][Next]_vars

\* the extraction step of analyze_images applied to every bounded narrative
\* the model may have streamed
InitExtract ==
    /\ analyzer = "pm"
    /\ image_metadata_list = <<UriPlain>>
    /\ pc = "extract"
    /\ idx = 1
    /\ response_text \in Narratives
    /\ simulated_progress = 0
    /\ cause = "none"
    /\ received = <<response_text>>
    /\ analysis_results = <<>>
    /\ hist = <<>>
    /\ image_analyses = <<>>
    /\ timeline = <<>>
    /\ total_progress = Zero
    /\ num_analyses = 0
    /\ pos = 0
    /\ reports = EmptyReport

NextExtract == ExtractAndAppend \/ LoopExit

SpecExtract == InitExtract /\ [][NextExtract]_vars

\* consolidate_analysis called, up to MaxCalls times, on any bounded list
AnalysisTexts == { <<"a">>, <<"4", "0", "%">> }

ProgressValues == { Zero, FromInt(40), Rat(147, 2), FromInt(100), FromInt(250) }

AnalysisRecords == [analysis : AnalysisTexts, progress : ProgressValues]

InitConsolidate ==
    /\ analyzer = "agents"
    /\ image_metadata_list = <<>>
    /\ pc = "consolidate"
    /\ idx = 0
    /\ response_text = <<>>
    /\ simulated_progress = 0
    /\ cause = "none"
    /\ received = <<>>
    /\ analysis_results = <<>>
    /\ hist = <<>>
    /\ image_analyses \in SeqsUpTo(AnalysisRecords, MaxAnalyses)
    /\ timeline = <<>>
    /\ total_progress = Zero
    /\ num_analyses = 0
    /\ pos = 0
    /\ reports = EmptyReport

NextConsolidate == ConsolidateBegin \/ ConsolidateLoop \/ ConsolidateReturn

SpecConsolidate == InitConsolidate /\ [][NextConsolidate]_vars

(***************************************************************************)
(* Properties                                                              *)
(***************************************************************************)
InRange(x, lo, hi) == RatLeq(FromInt(lo), x) /\ RatLeq(x, FromInt(hi))

Indices(q) == 1..Len(q)

RECURSIVE ProductOfDenominators(_)
ProductOfDenominators(q) ==
    IF q = <<>> THEN 1 ELSE Head(q).progress.d * ProductOfDenominators(Tail(q))

\* sum of the progress values of q, as a numerator over the denominator D
RECURSIVE NumeratorSum(_, _)
NumeratorSum(q, D) ==
    IF q = <<>> THEN 0
    ELSE Head(q).progress.n * (D \div Head(q).progress.d) + NumeratorSum(Tail(q), D)

IsMeanOf(x, q) ==
    LET D == ProductOfDenominators(q)
    IN  /\ x.d > 0
        /\ x.n * (D * Len(q)) = x.d * NumeratorSum(q, D)

\* C1: every report returned by consolidate_analysis has overall_progress equal
\* to the sum of the 'progress' values divided by their number, and equal to
\* 0.0 when the list is empty.
C1_OverallProgressIsMean ==
    \A k \in Indices(reports) :
        IF image_analyses = <<>>
        THEN reports[k].overall_progress = Zero
        ELSE IsMeanOf(reports[k].overall_progress, image_analyses)

\* a report over 40 and 73.5, whose mean is 56.75, and one over a single value
C1_Witness ==
    /\ Len(reports) >= 1
    /\ Len(image_analyses) = 2
    /\ image_analyses[1].progress = FromInt(40)
    /\ image_analyses[2].progress = Rat(147, 2)
    /\ reports[1].overall_progress = Rat(227, 4)

\* C2: neither analyzer lets a failure of the external model call escape:
\* whichever step fails, the image gets the simulated narrative and the
\* analyzer carries on.
C2_FailureNeverPropagates ==
    /\ pc # "raised"
    /\ \A i \in Indices(hist) :
          hist[i].cause # "none" =>
              \E h \in SimulatedChoices :
                  Narrative(analysis_results[i]) = SimulatedText(hist[i].image_uri, h)

\* C3: on the fallback path the stored progress is the percentage written into
\* the simulated narrative and lies in [50, 100], whatever the image reference.
C3_SimulatedProgressIsWritten ==
    \A i \in Indices(hist) :
        hist[i].simulated =>
            /\ analysis_results[i].progress = hist[i].written
            /\ InRange(analysis_results[i].progress, 50, 100)

\* C4: every result's progress lies in [0, 100], and so does every
\* overall_progress computed from analyzer output.
C4_ProgressWithinPercentRange ==
    /\ \A i \in Indices(analysis_results) :
          InRange(analysis_results[i].progress, 0, 100)
    /\ \A k \in Indices(reports) :
          InRange(reports[k].overall_progress, 0, 100)

DigitPositions(t) == {i \in Indices(t) : IsDigit(t[i])}

\* last index of the maximal run of digits that starts at i
MaximalRunEnd(t, i) ==
    CHOOSE j \in i..Len(t) :
        /\ \A k \in i..j : IsDigit(t[k])
        /\ j = Len(t) \/ ~IsDigit(t[j + 1])

\* value of the decimal numeral t[lo..hi]
RECURSIVE NumeralValue(_, _, _)
NumeralValue(t, lo, hi) ==
    IF lo > hi THEN 0
    ELSE DigitVal(t[lo]) * Pow10(hi - lo) + NumeralValue(t, lo + 1, hi)

\* x is the number written by the leftmost maximal run of digits of t,
\* together with a directly following ".digits"; 0 if t has no digit
IsLeftmostNumber(x, t) ==
    IF DigitPositions(t) = {}
    THEN x = Zero
    ELSE LET i == CHOOSE a \in DigitPositions(t) : \A b \in DigitPositions(t) : a <= b
             j == MaximalRunEnd(t, i)
             hasFrac == j + 2 <= Len(t) /\ t[j + 1] = "." /\ IsDigit(t[j + 2])
             k == IF hasFrac THEN MaximalRunEnd(t, j + 2) ELSE j + 1
             scale == Pow10(k - j - 1)
         IN  /\ x.d > 0
             /\ x.n * scale =
                  x.d * (NumeralValue(t, i, j) * scale + NumeralValue(t, j + 2, k))

\* C5: the extracted progress is the value of the leftmost maximal run of
\* digits with its directly following fraction, with or without a '%' after
\* it, and 0.0 when the narrative has no digit.
C5_ProgressIsLeftmostNumber ==
    \A i \in Indices(analysis_results) :
        IsLeftmostNumber(analysis_results[i].progress, Narrative(analysis_results[i]))

\* "approximately 73.5% progress" has been extracted as 73.5
C5_Witness ==
    /\ Len(analysis_results) = 1
    /\ Narrative(analysis_results[1]) = ExampleWithPercent
    /\ analysis_results[1].progress = Rat(147, 2)

\* C6: every result carries an is_simulated flag that is true exactly when the
\* result came from the fallback.
C6_ResultCarriesSimulatedFlag ==
    \A i \in Indices(hist) :
        /\ "is_simulated" \in DOMAIN analysis_results[i]
        /\ analysis_results[i].is_simulated = hist[i].simulated

\* C7: the timeline of every report has the length of the input and its i-th
\* entry holds the 'analysis' and 'progress' of the i-th input result.
C7_TimelinePreservesOrder ==
    \A k \in Indices(reports) :
        /\ Len(reports[k].timeline) = Len(image_analyses)
        /\ \A i \in Indices(image_analyses) :
              /\ reports[k].timeline[i].analysis = image_analyses[i].analysis
              /\ reports[k].timeline[i].progress = image_analyses[i].progress

\* a report over two different results
C7_Witness ==
    /\ Len(reports) >= 1
    /\ Len(image_analyses) = 2
    /\ image_analyses[1] # image_analyses[2]
    /\ Len(reports[1].timeline) = 2

\* C8: all calls of consolidate_analysis on the same list return the same
\* report, and no step of a call changes the list.
C8_ConsolidateIsRepeatable ==
    /\ [](\A j, k \in Indices(reports) : reports[j] = reports[k])
    /\ [][image_analyses' = image_analyses]_vars

\* two calls have returned on a list with a non-zero progress
C8_Witness ==
    /\ Len(reports) = 2
    /\ Len(image_analyses) >= 1
    /\ image_analyses[1].progress # Zero

RECURSIVE Concat(_)
Concat(chunks) == IF chunks = <<>> THEN <<>> ELSE Head(chunks) \o Concat(Tail(chunks))

\* C9: in both analyzers, an image for which no call to the external service
\* failed gets the concatenation of the streamed chunks as its narrative, and
\* not the simulated one.
C9_GenuineNarrativeWhenServiceWorks ==
    \A i \in Indices(hist) :
        hist[i].cause \notin {"client", "part", "stream"} =>
            /\ ~hist[i].simulated
            /\ Narrative(analysis_results[i]) = Concat(hist[i].received)

InsideIteration ==
    /\ idx >= 1
    /\ pc \in {"client", "part", "prompt", "stream", "except", "extract"}

====
